---------------------------- MODULE Spec2Model ----------------------------
(***************************************************************************)
(* Model of the two utilities under src/python/pdf:                        *)
(*                                                                         *)
(*   pdf_vector_raster_inspector.py  classify_raster_block,                *)
(*       get_image_blocks, collect_vector_kinds_from_drawings, analyze_pdf *)
(*   pdf_to_cairo.py                 main (the pdftocairo driver)          *)
(*                                                                         *)
(* Python strings are sequences of one-character strings, so that          *)
(* str.lower() and the code-point order used by sorted() are computed and  *)
(* not assumed.  Page coordinates are integers; a comparison against a     *)
(* decimal threshold t is made in hundredths (100*a >= T*b for a >= t*b),  *)
(* which is the exact value of the comparison the code makes in floating   *)
(* point for every input the model draws.                                  *)
(***************************************************************************)
EXTENDS Integers, Sequences, FiniteSets, TLC

VARIABLES
    classified,   \* the last call of classify_raster_block: its arguments and result
    doc,          \* analyze_pdf: the document fitz.open() yields (the input)
    pc,           \* analyze_pdf: the position in the function
    results,      \* analyze_pdf: the accumulating list of page records
    doc_closed,   \* analyze_pdf: whether doc.close() has run
    report,       \* analyze_pdf: the value returned to the caller
    error,        \* analyze_pdf: the exception that reached the caller
    env,          \* pdf_to_cairo.main: arguments and file system facts
    dpc,          \* pdf_to_cairo.main: the position in the function
    pages,        \* pdf_to_cairo.main: page count parsed from pdfinfo, or None
    first,        \* pdf_to_cairo.main: first page of the range
    last,         \* pdf_to_cairo.main: last page of the range
    generated,    \* pdf_to_cairo.main: names (page numbers) of the files produced
    attempts,     \* pdf_to_cairo.main: the pdftocairo invocations made, in order
    exit_code     \* pdf_to_cairo.main: the value main() hands to sys.exit

cvars == <<classified>>
avars == <<doc, pc, results, doc_closed, report, error>>
dvars == <<env, dpc, pages, first, last, generated, attempts, exit_code>>
vars == <<classified, doc, pc, results, doc_closed, report, error,
          env, dpc, pages, first, last, generated, attempts, exit_code>>

\* None where a string is expected; an optional integer is <<>> (None) or <<n>>.
None == "None"
NoInt == <<>>
Some(n) == <<n>>

-----------------------------------------------------------------------------
(* Python str: lower() and the ordering sorted() uses.                      *)

LowerCase == <<"a","b","c","d","e","f","g","h","i","j","k","l","m",
               "n","o","p","q","r","s","t","u","v","w","x","y","z">>
UpperCase == <<"A","B","C","D","E","F","G","H","I","J","K","L","M",
               "N","O","P","Q","R","S","T","U","V","W","X","Y","Z">>

IndexIn(c, alphabet) ==
    IF \E k \in DOMAIN alphabet : alphabet[k] = c
    THEN CHOOSE k \in DOMAIN alphabet : alphabet[k] = c
    ELSE 0

\* ord(c): the code point of an ASCII letter or of "_".
ord(c) ==
    IF IndexIn(c, UpperCase) > 0 THEN 64 + IndexIn(c, UpperCase)
    ELSE IF IndexIn(c, LowerCase) > 0 THEN 96 + IndexIn(c, LowerCase)
    ELSE 95

\* str.lower(), character by character.
lower(s) ==
    [k \in DOMAIN s |->
        IF IndexIn(s[k], UpperCase) > 0
        THEN LowerCase[IndexIn(s[k], UpperCase)]
        ELSE s[k]]

RECURSIVE StrLess(_, _)
\* a < b for Python strings: by code point, a proper prefix first.
StrLess(a, b) ==
    IF b = <<>> THEN FALSE
    ELSE IF a = <<>> THEN TRUE
    ELSE IF ord(Head(a)) # ord(Head(b)) THEN ord(Head(a)) < ord(Head(b))
    ELSE StrLess(Tail(a), Tail(b))

RECURSIVE sorted(_)
\* sorted(S) for a set of strings: ascending, smallest first.
sorted(S) ==
    IF S = {} THEN <<>>
    ELSE LET m == CHOOSE x \in S : \A y \in S \ {x} : StrLess(x, y)
         IN  <<m>> \o sorted(S \ {m})

Range(s) == {s[k] : k \in DOMAIN s}

-----------------------------------------------------------------------------
(* classify_raster_block                                                    *)

SCANNED_PAGE == <<"s","c","a","n","n","e","d","_","p","a","g","e">>
LARGE_IMAGE  == <<"l","a","r","g","e","_","i","m","a","g","e">>
LOGO         == <<"l","o","g","o">>
STAMP        == <<"s","t","a","m","p">>
IMAGE        == <<"i","m","a","g","e">>
ZeroDivisionError == <<"Z","e","r","o","D","i","v","i","s","i","o","n","E","r","r","o","r">>

\* The decimal thresholds of the source, in hundredths.
RatioScanned == 60
RatioLarge   == 10
RatioSmall   == 2
EdgeLow      == 15
EdgeHigh     == 85

Max(a, b) == IF a >= b THEN a ELSE b

\* The area without the clamp of negative extents.
box_area_unclamped(bbox) == (bbox[3] - bbox[1]) * (bbox[4] - bbox[2])

box_area(bbox) ==
    LET bw == Max(0, bbox[3] - bbox[1])
        bh == Max(0, bbox[4] - bbox[2])
    IN  bw * bh

page_area_of(page_w, page_h) == Max(1, page_w * page_h)

near_top(bbox, page_h)    == 100 * bbox[2] <= EdgeLow * page_h
near_bottom(bbox, page_h) == 100 * bbox[4] >= EdgeHigh * page_h
near_right(bbox, page_w)  == 100 * bbox[3] >= EdgeHigh * page_w
near_left(bbox, page_w)   == 100 * bbox[1] <= EdgeLow * page_w

\* The classifier with the two upper thresholds made exclusive.
classify_exclusive(bbox, page_w, page_h) ==
    LET area      == box_area(bbox)
        page_area == page_area_of(page_w, page_h)
    IN  IF page_area = 0 THEN ZeroDivisionError
        ELSE IF 100 * area > RatioScanned * page_area THEN SCANNED_PAGE
        ELSE IF 100 * area > RatioLarge * page_area THEN LARGE_IMAGE
        ELSE IF 100 * area <= RatioSmall * page_area
             THEN IF near_bottom(bbox, page_h)
                     /\ (near_right(bbox, page_w) \/ near_left(bbox, page_w))
                  THEN STAMP
                  ELSE IF near_top(bbox, page_h)
                          /\ (near_right(bbox, page_w) \/ near_left(bbox, page_w))
                       THEN LOGO
                       ELSE IMAGE
        ELSE IMAGE

classify_raster_block(bbox, page_w, page_h) ==
    LET area      == box_area(bbox)
        page_area == page_area_of(page_w, page_h)
    IN  IF page_area = 0 THEN ZeroDivisionError
        ELSE IF 100 * area >= RatioScanned * page_area THEN SCANNED_PAGE
        ELSE IF 100 * area >= RatioLarge * page_area THEN LARGE_IMAGE
        ELSE IF 100 * area <= RatioSmall * page_area
             THEN IF near_bottom(bbox, page_h)
                     /\ (near_right(bbox, page_w) \/ near_left(bbox, page_w))
                  THEN STAMP
                  ELSE IF near_top(bbox, page_h)
                          /\ (near_right(bbox, page_w) \/ near_left(bbox, page_w))
                       THEN LOGO
                       ELSE IMAGE
        ELSE IMAGE

\* Coordinates and page sizes the classifier is called with.
Coords   == {-2, 0, 1, 2, 3, 4, 8, 10, 12, 16, 17, 18, 20, 22}
PageDims == {0, 10, 20}

NoCall == [called |-> FALSE]

\* One call of classify_raster_block.
Classify ==
    /\ classified = NoCall
    /\ \E x0 \in Coords, y0 \in Coords, x1 \in Coords, y1 \in Coords,
          w \in PageDims, h \in PageDims :
          classified' = [called |-> TRUE, bbox |-> <<x0, y0, x1, y1>>,
                         page_w |-> w, page_h |-> h,
                         label |-> classify_raster_block(<<x0, y0, x1, y1>>, w, h)]
    /\ UNCHANGED <<avars, dvars>>

-----------------------------------------------------------------------------
(* get_image_blocks, collect_vector_kinds_from_drawings                     *)

\* A block of page.get_text("dict"): its "type" and, when present, its "bbox".
Block(type, has_bbox, bbox) == [type |-> type, has_bbox |-> has_bbox, bbox |-> bbox]

get_image_blocks(page) ==
    SelectSeq(page.blocks, LAMBDA b : b.type = 1 /\ b.has_bbox)

TEXT          == <<"t","e","x","t">>
LINE          == <<"l","i","n","e">>
CURVE         == <<"c","u","r","v","e">>
RECT          == <<"r","e","c","t">>
MOVETO        == <<"m","o","v","e","t","o">>
CLOSEPATH     == <<"c","l","o","s","e","p","a","t","h">>
SAVE_STATE    == <<"s","a","v","e","_","s","t","a","t","e">>
RESTORE_STATE == <<"r","e","s","t","o","r","e","_","s","t","a","t","e">>
QUAD          == <<"q","u","a","d">>

\* The dict OPERATOR_MAP as a set of (key, value) pairs.
OPERATOR_MAP ==
    { << <<"l">>, LINE >>,      << <<"c">>, CURVE >>,
      << <<"r","e">>, RECT >>,  << <<"m">>, MOVETO >>,
      << <<"h">>, CLOSEPATH >>, << <<"q">>, SAVE_STATE >>,
      << <<"Q">>, RESTORE_STATE >>, << <<"q","u">>, QUAD >> }

\* dict.get(key, default)
MapGet(map, key, default) ==
    IF \E kv \in map : kv[1] = key
    THEN (CHOOSE kv \in map : kv[1] = key)[2]
    ELSE default

\* The items of a drawing as page.get_drawings() may give them: a dict with or
\* without a "type", a tuple whose first element is the operator, anything else.
DictItem(type)  == [form |-> "dict", has_type |-> TRUE, type |-> type]
UntypedDictItem == [form |-> "dict", has_type |-> FALSE, type |-> <<>>]
TupleItem(op)   == [form |-> "tuple", op |-> op]
OtherItem       == [form |-> "other"]

\* What one item adds to kinds (lines 120-127).
item_kinds(item) ==
    IF item.form = "dict"
    THEN {lower(IF item.has_type THEN item.type ELSE <<>>)}
    ELSE IF item.form = "tuple"
         THEN LET op == lower(item.op)
              IN  {MapGet(OPERATOR_MAP, op, op)}
         ELSE {}

\* d.get("items", [])
drawing_items(d) == IF d.has_items THEN d.items ELSE <<>>

collect_vector_kinds_from_drawings(drawings) ==
    UNION { UNION { item_kinds(drawing_items(drawings[k])[j]) :
                        j \in DOMAIN drawing_items(drawings[k]) } :
            k \in DOMAIN drawings }

-----------------------------------------------------------------------------
(* analyze_pdf                                                              *)

\* enumerate(doc) without start=1.
page_index_from_zero(n) == n

\* enumerate(doc, start=1): the index given to the page read after n others.
page_index(n) == n + 1

\* The page record with vector_content taken from the text signal alone.
page_result_text_only(i, page) ==
    LET image_blocks   == get_image_blocks(page)
        raster_labels  == { classify_raster_block(image_blocks[k].bbox,
                                                  page.page_w, page.page_h) :
                            k \in DOMAIN image_blocks }
        has_text       == page.words > 0
        vector_kinds   == collect_vector_kinds_from_drawings(page.drawings)
        vector_objects == (IF has_text THEN <<TEXT>> ELSE <<>>) \o sorted(vector_kinds)
    IN  [page           |-> i,
         vector_content |-> has_text,
         raster_content |-> image_blocks # <<>>,
         raster_objects |-> IF raster_labels # {} THEN sorted(raster_labels) ELSE <<>>,
         vector_objects |-> vector_objects]

\* The record built for page i (lines 136-164); every parser call succeeded.
page_result(i, page) ==
    LET image_blocks   == get_image_blocks(page)
        raster_labels  == { classify_raster_block(image_blocks[k].bbox,
                                                  page.page_w, page.page_h) :
                            k \in DOMAIN image_blocks }
        has_text       == page.words > 0
        vector_kinds   == collect_vector_kinds_from_drawings(page.drawings)
        vector_objects == (IF has_text THEN <<TEXT>> ELSE <<>>) \o sorted(vector_kinds)
    IN  [page           |-> i,
         vector_content |-> vector_objects # <<>>,
         raster_content |-> image_blocks # <<>>,
         raster_objects |-> IF raster_labels # {} THEN sorted(raster_labels) ELSE <<>>,
         vector_objects |-> vector_objects]

NoReport == "no value returned"
NoError  == [raised_by |-> None, page |-> NoInt]

\* The exception swallowed and the pages read so far returned.
swallowed(exc, partial) ==
    [pc |-> "returned", report |-> partial, error |-> NoError]

\* An exception raised by a parser call inside the loop: nothing catches it, so
\* it leaves analyze_pdf as raised, with no page index added, and no value is
\* returned.
uncaught(exc, partial) ==
    [pc |-> "raised", report |-> NoReport, error |-> [raised_by |-> exc, page |-> NoInt]]

\* doc = fitz.open(pdf_path); results = []
Open ==
    /\ pc = "start"
    /\ pc' = "loop"
    /\ UNCHANGED <<doc, results, doc_closed, report, error, cvars, dvars>>

\* One iteration of the loop over the pages, all parser calls succeeding.
AnalyzePage ==
    /\ pc = "loop"
    /\ Len(results) < Len(doc)
    /\ LET page == doc[Len(results) + 1]
       IN  /\ page.fail = None
           /\ results' = Append(results, page_result(page_index(Len(results)), page))
    /\ UNCHANGED <<doc, pc, doc_closed, report, error, cvars, dvars>>

\* One iteration in which page.get_text("dict"), page.get_text("words") or
\* page.get_drawings() raises.
PageRaises ==
    /\ pc = "loop"
    /\ Len(results) < Len(doc)
    /\ LET page == doc[Len(results) + 1]
           out  == uncaught(page.fail, results)
       IN  /\ page.fail # None
           /\ pc' = out.pc
           /\ report' = out.report
           /\ error' = out.error
    /\ UNCHANGED <<doc, results, doc_closed, cvars, dvars>>

\* The loop is exhausted: doc.close(); return results
Finish ==
    /\ pc = "loop"
    /\ Len(results) = Len(doc)
    /\ doc_closed' = TRUE
    /\ report' = results
    /\ pc' = "returned"
    /\ UNCHANGED <<doc, results, error, cvars, dvars>>

-----------------------------------------------------------------------------
(* The documents analyze_pdf is run on.                                     *)

MaxPages    == 3
MaxBlocks   == 2
MaxDrawings == 2

BSeq(S, n) == UNION { [1..k -> S] : k \in 0..n }

Page(blocks, words, drawings, fail) ==
    [page_w |-> 20, page_h |-> 20, blocks |-> blocks, words |-> words,
     drawings |-> drawings, fail |-> fail]

FullBleed   == Block(1, TRUE, <<0, 0, 20, 20>>)
TopRight    == Block(1, TRUE, <<17, 0, 19, 2>>)
BottomRight == Block(1, TRUE, <<17, 17, 19, 19>>)
Middle      == Block(1, TRUE, <<8, 8, 10, 10>>)
TextBlock   == Block(0, TRUE, <<0, 0, 20, 4>>)
NoBoxBlock  == Block(1, FALSE, <<>>)

BlockUniverse == {FullBleed, TopRight, BottomRight, Middle, TextBlock, NoBoxBlock}

Operators == { <<"l">>, <<"c">>, <<"r","e">>, <<"m">>, <<"h">>, <<"q">>, <<"Q">>,
               <<"q","u">>, <<"x","y">>, <<"X","Y">>, TEXT }

ItemUniverse ==
    { TupleItem(op) : op \in Operators }
    \cup { DictItem(LINE), DictItem(<<"R","e","c","t">>), DictItem(TEXT), DictItem(<<>>),
           UntypedDictItem, OtherItem }

Drawing(items) == [has_items |-> TRUE, items |-> items]
DrawingNoItems == [has_items |-> FALSE, items |-> <<>>]

DrawingUniverse ==
    { Drawing(<<it>>) : it \in ItemUniverse }
    \cup { DrawingNoItems, Drawing(<<>>),
           Drawing(<<TupleItem(<<"r","e">>), TupleItem(<<"l">>)>>),
           Drawing(<<TupleItem(<<"q">>), TupleItem(<<"Q">>)>>) }

RasterPages == { Page(bs, 0, <<>>, None) : bs \in BSeq(BlockUniverse, MaxBlocks) }
VectorPages == { Page(<<>>, w, ds, None) :
                     w \in {0, 2}, ds \in BSeq(DrawingUniverse, MaxDrawings) }

\* The pages of the multi-page documents: a scan, text only, a logo beside a
\* rectangle, an empty page, and pages on which one parser call raises.
ParserCalls == {"get_text_dict", "get_text_words", "get_drawings"}
SmallPages ==
    { Page(<<FullBleed>>, 0, <<>>, None),
      Page(<<>>, 2, <<>>, None),
      Page(<<TopRight>>, 0, <<Drawing(<<TupleItem(<<"r","e">>)>>)>>, None),
      Page(<<>>, 0, <<>>, None) }
    \cup { Page(<<>>, 0, <<>>, call) : call \in ParserCalls }

Documents ==
    { <<p>> : p \in RasterPages \cup VectorPages } \cup BSeq(SmallPages, MaxPages)

InitIdle ==
    /\ classified = NoCall
    /\ doc = <<>>
    /\ pc = "idle"
    /\ results = <<>>
    /\ doc_closed = FALSE
    /\ report = NoReport
    /\ error = NoError
    /\ env = None
    /\ dpc = "idle"
    /\ pages = NoInt
    /\ first = 0
    /\ last = 0
    /\ generated = <<>>
    /\ attempts = <<>>
    /\ exit_code = NoInt

\* classify_raster_block called on any box and page size.
InitClassify == InitIdle
SpecClassify == InitClassify /\ [][Classify]_vars

\* analyze_pdf run on any of the documents.
Init ==
    /\ classified = NoCall
    /\ doc \in Documents
    /\ pc = "start"
    /\ results = <<>>
    /\ doc_closed = FALSE
    /\ report = NoReport
    /\ error = NoError
    /\ env = None
    /\ dpc = "idle"
    /\ pages = NoInt
    /\ first = 0
    /\ last = 0
    /\ generated = <<>>
    /\ attempts = <<>>
    /\ exit_code = NoInt

Next == Open \/ AnalyzePage \/ PageRaises \/ Finish

Spec == Init /\ [][Next]_vars

-----------------------------------------------------------------------------
(* pdf_to_cairo.main                                                        *)

MaxPageNo == 3

\* Return codes of a pdftocairo run: success, failures, death by a signal.
ReturnCodes == {-9, 0, 1, 2}

\* bool(x) and "x or y", for x an optional integer and y an integer
Truthy(x) == x # NoInt /\ x # Some(0)
Or(x, y) == IF Truthy(x) THEN x[1] ELSE y

\* Step 3: pages stays None unless pdfinfo is probed, found, exits 0 and prints
\* a "Pages:" line whose value int() accepts.
probe_pages(e) ==
    IF ~e.no_info /\ e.pdfinfo_found /\ e.info_rc = 0 THEN e.info_pages ELSE NoInt

\* Step 4: the page range.
decide_first(e) == Or(e.arg_first, 1)
decide_last(e, npages, fst) ==
    LET l == Or(e.arg_last, Or(npages, fst))
    IN  IF Truthy(npages) /\ l > npages[1] THEN npages[1] ELSE l

\* Steps 0 and 1: pdftocairo on PATH, the input a non-empty file.
inputs_ok(e) == e.exe_found /\ e.is_file /\ e.size # 0

\* The loop going on to the next page after a failed run.
after_run_continue(pnum, rc, exists, gen) ==
    [dpc |-> "convert", exit_code |-> NoInt,
     generated |-> IF exists THEN Append(gen, pnum) ELSE gen]

\* Lines 100-106: what follows one pdftocairo run on page pnum.
after_run(pnum, rc, exists, gen) ==
    IF rc # 0
    THEN [dpc |-> "exited", exit_code |-> Some(rc), generated |-> gen]
    ELSE [dpc |-> "convert", exit_code |-> NoInt,
          generated |-> IF exists THEN Append(gen, pnum) ELSE gen]

\* Lines 109-123: after the loop.
validate(gen) == IF gen = <<>> THEN Some(1) ELSE Some(0)

RECURSIVE sort_by_pnum(_)
\* generated.sort(key=pnum)
sort_by_pnum(gen) ==
    IF gen = <<>> THEN <<>>
    ELSE LET k == CHOOSE a \in DOMAIN gen : \A b \in DOMAIN gen : gen[a] <= gen[b]
         IN  <<gen[k]>> \o sort_by_pnum(SubSeq(gen, 1, k - 1) \o SubSeq(gen, k + 1, Len(gen)))

CheckInputs ==
    /\ dpc = "start"
    /\ IF inputs_ok(env)
       THEN dpc' = "range" /\ UNCHANGED exit_code
       ELSE dpc' = "exited" /\ exit_code' = Some(2)
    /\ UNCHANGED <<env, pages, first, last, generated, attempts, cvars, avars>>

DecideRange ==
    /\ dpc = "range"
    /\ pages' = probe_pages(env)
    /\ first' = decide_first(env)
    /\ last' = decide_last(env, pages', first')
    /\ dpc' = "convert"
    /\ UNCHANGED <<env, generated, attempts, exit_code, cvars, avars>>

\* One iteration of: for pnum in range(first, last + 1)
ConvertPage ==
    /\ dpc = "convert"
    /\ LET pnum == first + Len(attempts)
       IN  /\ pnum <= last
           /\ \E rc \in ReturnCodes, exists \in BOOLEAN :
                LET out == after_run(pnum, rc, exists, generated)
                IN  /\ attempts' = Append(attempts, [f |-> pnum, l |-> pnum, rc |-> rc])
                    /\ dpc' = out.dpc
                    /\ exit_code' = out.exit_code
                    /\ generated' = out.generated
    /\ UNCHANGED <<env, pages, first, last, cvars, avars>>

\* The range is exhausted.
Validate ==
    /\ dpc = "convert"
    /\ first + Len(attempts) > last
    /\ exit_code' = validate(generated)
    /\ generated' = sort_by_pnum(generated)
    /\ dpc' = "exited"
    /\ UNCHANGED <<env, pages, first, last, attempts, cvars, avars>>

IntOrNone == {NoInt} \cup { Some(n) : n \in 0..MaxPageNo }

Environments ==
    [exe_found : BOOLEAN, is_file : BOOLEAN, size : {0, 1},
     no_info : BOOLEAN, pdfinfo_found : BOOLEAN, info_rc : {0, 1},
     info_pages : IntOrNone, arg_first : IntOrNone, arg_last : IntOrNone]

InitCairo ==
    /\ classified = NoCall
    /\ doc = <<>>
    /\ pc = "idle"
    /\ results = <<>>
    /\ doc_closed = FALSE
    /\ report = NoReport
    /\ error = NoError
    /\ env \in Environments
    /\ dpc = "start"
    /\ pages = NoInt
    /\ first = 0
    /\ last = 0
    /\ generated = <<>>
    /\ attempts = <<>>
    /\ exit_code = NoInt

NextCairo == CheckInputs \/ DecideRange \/ ConvertPage \/ Validate

SpecCairo == InitCairo /\ [][NextCairo]_vars

-----------------------------------------------------------------------------
(* Properties of classify_raster_block (SpecClassify)                       *)

WellFormed(bbox) == bbox[3] >= bbox[1] /\ bbox[4] >= bbox[2]

\* ratio compared with t hundredths, ratio = area / max(1, W*H)
RatioAtLeast(bbox, w, h, t) ==
    100 * (bbox[3] - bbox[1]) * (bbox[4] - bbox[2]) >= t * Max(1, w * h)
RatioAtMost(bbox, w, h, t) ==
    100 * (bbox[3] - bbox[1]) * (bbox[4] - bbox[2]) <= t * Max(1, w * h)
RatioIs(bbox, w, h, t) == RatioAtLeast(bbox, w, h, t) /\ RatioAtMost(bbox, w, h, t)

InSideColumn(bbox, w) == 100 * bbox[3] >= 85 * w \/ 100 * bbox[1] <= 15 * w
AtBottom(bbox, h)     == 100 * bbox[4] >= 85 * h
AtTop(bbox, h)        == 100 * bbox[2] <= 15 * h

\* The label the placement branch gives.
PlacementLabel(bbox, w, h) ==
    CASE AtBottom(bbox, h) /\ InSideColumn(bbox, w) -> STAMP
      [] ~(AtBottom(bbox, h) /\ InSideColumn(bbox, w))
           /\ AtTop(bbox, h) /\ InSideColumn(bbox, w) -> LOGO
      [] OTHER -> IMAGE

\* The ordered first-match rules.
RuleLabel(bbox, w, h) ==
    CASE RatioAtLeast(bbox, w, h, 60) -> SCANNED_PAGE
      [] ~RatioAtLeast(bbox, w, h, 60) /\ RatioAtLeast(bbox, w, h, 10) -> LARGE_IMAGE
      [] ~RatioAtLeast(bbox, w, h, 10) /\ RatioAtMost(bbox, w, h, 2) ->
            PlacementLabel(bbox, w, h)
      [] OTHER -> IMAGE

\* C1: for every box with x1 >= x0 and y1 >= y0 and every page size, the label
\* returned is the one the ordered rules with inclusive thresholds choose; ratio
\* exactly 0.6 gives scanned_page, exactly 0.1 gives large_image, exactly 0.02
\* takes the placement branch, and a small box in a side column that is near
\* both the top and the bottom is a stamp.
C1_FirstMatchRules ==
    (classified.called /\ WellFormed(classified.bbox)) =>
        LET b == classified.bbox
            w == classified.page_w
            h == classified.page_h
        IN  /\ classified.label = RuleLabel(b, w, h)
            /\ RatioIs(b, w, h, 60) => classified.label = SCANNED_PAGE
            /\ RatioIs(b, w, h, 10) => classified.label = LARGE_IMAGE
            /\ RatioIs(b, w, h, 2) => classified.label = PlacementLabel(b, w, h)
            /\ (RatioAtMost(b, w, h, 2) /\ AtTop(b, h) /\ AtBottom(b, h)
                    /\ InSideColumn(b, w)) => classified.label = STAMP

\* A box covering exactly 0.6 of a 20 x 20 page was classified scanned_page.
C1_Witness ==
    /\ classified.called
    /\ WellFormed(classified.bbox)
    /\ classified.page_w = 20 /\ classified.page_h = 20
    /\ RatioIs(classified.bbox, 20, 20, 60)
    /\ classified.label = SCANNED_PAGE

\* C8: for any four coordinates and any page size, a zero-sized page included,
\* the call returns one of the five labels and raises nothing; a box with a
\* negative extent has area 0 and gets the label of the placement branch.
C8_TotalAndClamped ==
    classified.called =>
        /\ classified.label \in {SCANNED_PAGE, LARGE_IMAGE, LOGO, STAMP, IMAGE}
        /\ ~WellFormed(classified.bbox) =>
              classified.label = PlacementLabel(classified.bbox, classified.page_w,
                                                classified.page_h)

\* A box with both extents negative on a zero-sized page was classified.
C8_Witness ==
    /\ classified.called
    /\ classified.bbox[3] < classified.bbox[1]
    /\ classified.bbox[4] < classified.bbox[2]
    /\ classified.page_w = 0 /\ classified.page_h = 0
    /\ classified.label = STAMP

-----------------------------------------------------------------------------
(* Properties of analyze_pdf (Spec)                                         *)

ScanEnded == pc \in {"returned", "raised"}

\* Page k's parser calls raise, and no earlier page's do.
FirstFailingPage(k) ==
    /\ k \in DOMAIN doc
    /\ doc[k].fail # None
    /\ \A j \in 1..(k - 1) : doc[j].fail = None

\* The operator codes of the page's items, when every item is a tuple.
AllTuples(page) ==
    \A k \in DOMAIN page.drawings :
        \A j \in DOMAIN drawing_items(page.drawings[k]) :
            drawing_items(page.drawings[k])[j].form = "tuple"
TupleOps(page) ==
    UNION { { drawing_items(page.drawings[k])[j].op :
                j \in DOMAIN drawing_items(page.drawings[k]) } :
            k \in DOMAIN page.drawings }

\* The kind the fixed table gives an operator code; a code absent from the
\* table is its own tag, lower-cased.
TableKind(op) == MapGet(OPERATOR_MAP, op, lower(op))

\* C2: every positional operator tuple contributes the kind the table gives its
\* operator code (l line, c curve, re rect, m moveto, h closepath, q save_state,
\* Q restore_state, qu quad), an unlisted code its own lower-cased code.
C2_OperatorTable ==
    \A k \in DOMAIN results :
        (doc[k].words = 0 /\ AllTuples(doc[k])) =>
            Range(results[k].vector_objects) = { TableKind(op) : op \in TupleOps(doc[k]) }

\* C3: once the scan has ended, by return or by an exception, the document has
\* been closed.
C3_ClosedOnEveryExit == ScanEnded => doc_closed

HasImageBlock(page) ==
    \E j \in DOMAIN page.blocks : page.blocks[j].type = 1 /\ page.blocks[j].has_bbox

\* C4: in every page record vector_content holds exactly when vector_objects is
\* non-empty, raster_content exactly when the page had an image block and
\* exactly when raster_objects is non-empty; no image block gives false and [],
\* no drawings and no text gives false and [].
C4_ContentFlags ==
    \A k \in DOMAIN results :
        LET r == results[k]
            p == doc[k]
        IN  /\ r.vector_content <=> (r.vector_objects # <<>>)
            /\ r.raster_content <=> HasImageBlock(p)
            /\ r.raster_content <=> (r.raster_objects # <<>>)
            /\ ~HasImageBlock(p) => (~r.raster_content /\ r.raster_objects = <<>>)
            /\ (p.drawings = <<>> /\ p.words = 0) =>
                  (~r.vector_content /\ r.vector_objects = <<>>)

\* A record of a page with an image block and a drawing but no text, beside a
\* record of a page with neither.
C4_Witness ==
    \E k \in DOMAIN results, j \in DOMAIN results :
        /\ results[k].raster_content /\ results[k].vector_content
        /\ doc[k].words = 0
        /\ ~results[j].raster_content /\ ~results[j].vector_content

C6_OneRecordPerPage ==
    pc = "returned" =>
        /\ Len(report) = Len(doc)
        /\ \A k \in DOMAIN report :
              /\ report[k].page = k
              /\ report[k].vector_objects = page_result(k, doc[k]).vector_objects
              /\ report[k].raster_objects = page_result(k, doc[k]).raster_objects
              /\ report[k].vector_content = page_result(k, doc[k]).vector_content
              /\ report[k].raster_content = page_result(k, doc[k]).raster_content

\* A report of three pages that differ was returned.
C6_Witness ==
    /\ pc = "returned"
    /\ Len(report) = 3
    /\ report[1].raster_objects = <<SCANNED_PAGE>>
    /\ report[2].vector_objects = <<TEXT>>
    /\ report[3].raster_objects = <<LOGO>> /\ report[3].vector_objects = <<RECT>>

\* C7: vector_objects begins with "text" exactly when the page has selectable
\* text, and the tags after that leading "text" are the collected drawing kinds
\* in ascending order.
C7_TextFirstIffText ==
    \A k \in DOMAIN results :
        LET vo    == results[k].vector_objects
            kinds == collect_vector_kinds_from_drawings(doc[k].drawings)
        IN  /\ (vo # <<>> /\ vo[1] = TEXT) <=> (doc[k].words > 0)
            /\ (doc[k].words > 0) => Tail(vo) = sorted(kinds)
            /\ (doc[k].words = 0) => vo = sorted(kinds)

\* C10: vector_objects holds no tag twice and no empty tag.
C10_NoDuplicateNoEmpty ==
    \A k \in DOMAIN results :
        LET vo == results[k].vector_objects
        IN  /\ \A a \in DOMAIN vo, b \in DOMAIN vo : a # b => vo[a] # vo[b]
            /\ \A a \in DOMAIN vo : vo[a] # <<>>

-----------------------------------------------------------------------------
(* Properties of pdf_to_cairo.main (SpecCairo)                              *)

AllSucceeded == \A j \in DOMAIN attempts : attempts[j].rc = 0

\* C9: pages are converted one at a time in ascending order from first; a
\* missing tool or a missing or empty input exits 2 before any run; the first
\* failing run ends the loop and its code is the exit code; no file generated
\* exits 1; exit 0 only after every run returned 0 and a file was generated.
C9_DriverExit ==
    /\ \A j \in DOMAIN attempts :
          /\ attempts[j].f = first + j - 1
          /\ attempts[j].l = attempts[j].f
          /\ attempts[j].f <= last
          /\ j < Len(attempts) => attempts[j].rc = 0
    /\ dpc = "exited" =>
          /\ exit_code # NoInt
          /\ (~env.exe_found \/ ~env.is_file \/ env.size = 0) =>
                (exit_code = Some(2) /\ attempts = <<>>)
          /\ ~AllSucceeded =>
                (exit_code = Some(attempts[Len(attempts)].rc) /\ exit_code # Some(0))
          /\ (env.exe_found /\ env.is_file /\ env.size # 0 /\ AllSucceeded) =>
                /\ \A n \in first..last : \E j \in DOMAIN attempts : attempts[j].f = n
                /\ generated = <<>> => exit_code = Some(1)
          /\ exit_code = Some(0) =>
                (AllSucceeded /\ generated # <<>> /\ attempts # <<>>)

\* The second of three pages failed after the first had produced a file.
C9_Witness ==
    /\ dpc = "exited"
    /\ Len(attempts) = 2
    /\ last >= first + 2
    /\ attempts[2].rc = 2
    /\ generated # <<>>
    /\ exit_code = Some(2)

=============================================================================
